---- MODULE Spec2Model ----
(***************************************************************************)
(* Model of src/app.py: the chatbot's response router (generate_response), *)
(* the knowledge-base matcher (custom_semantic_match) and the rate-limited *)
(* page fetcher (rate_limited_get_url_content).                            *)
(*                                                                         *)
(* Strings are sequences of one-character strings, so that lower(),        *)
(* startswith(), strip() and slicing are computed as Python computes them. *)
(* Time is counted in ticks of 1/TicksPerSec second on one clock.          *)
(***************************************************************************)
EXTENDS Integers, Sequences, FiniteSets, TLC

\* ------------------------------------------------------------------ bounds

\* clock resolution: ticks per second
TicksPerSec == 2
\* the clock stops advancing after MaxSeconds seconds (one handler)
MaxSeconds == 5
\* the clock stops advancing after ConcSeconds seconds (two handlers)
ConcSeconds == 2
\* the clock stops advancing after BurstSeconds seconds (burst of requests)
BurstSeconds == 61
\* the clock stops advancing after RouterSeconds seconds (routing runs)
RouterSeconds == 1
\* length of the longest page text beyond the preview length
ExtraLen == 2
\* requests beyond the quota that are still issued inside one period
MaxOver == 2

\* ------------------------------------------------------- program constants

\* @ratelimit.limits(calls=10, ...)
CALLS == 10
\* @ratelimit.limits(..., period=60), seconds
PERIOD == 60
\* minimum spacing of line 77, seconds
MIN_GAP == 1
\* scraped_text[:500]
PREVIEW_LEN == 500

Threads == {1, 2}

\* ----------------------------------------------------------------- strings

Min(a, b) == IF a < b THEN a ELSE b

UPPER == <<"A","B","C","D","E","F","G","H","I","J","K","L","M",
           "N","O","P","Q","R","S","T","U","V","W","X","Y","Z">>
LOWER == <<"a","b","c","d","e","f","g","h","i","j","k","l","m",
           "n","o","p","q","r","s","t","u","v","w","x","y","z">>

\* the characters str.strip() removes and str.split() splits on
WHITESPACE == {" ", "\t", "\n"}

UpperSet == {UPPER[i] : i \in 1..Len(UPPER)}
LetterSet == UpperSet \cup {LOWER[i] : i \in 1..Len(LOWER)}
ToLower == [c \in UpperSet |-> LOWER[CHOOSE i \in 1..Len(UPPER) : UPPER[i] = c]]

\* str.lower(), one character
LowerChar(c) == IF c \in UpperSet THEN ToLower[c] ELSE c

\* str.lower()
Lower(s) == [i \in 1..Len(s) |-> LowerChar(s[i])]

\* str.isalpha(), for a non-empty string of the modelled alphabet
IsAlpha(s) ==
    /\ Len(s) > 0
    /\ \A i \in 1..Len(s) : s[i] \in LetterSet

\* str.startswith(prefix)
StartsWith(s, prefix) ==
    /\ Len(s) >= Len(prefix)
    /\ SubSeq(s, 1, Len(prefix)) = prefix

\* s[n:]
SliceFrom(s, n) == SubSeq(s, n + 1, Len(s))

\* s[:n]
SliceTo(s, n) == SubSeq(s, 1, Min(n, Len(s)))

\* str.strip()
Strip(s) ==
    LET keep == {i \in 1..Len(s) : s[i] \notin WHITESPACE}
    IN  IF keep = {} THEN <<>>
        ELSE LET lo == CHOOSE i \in keep : \A j \in keep : i <= j
                 hi == CHOOSE i \in keep : \A j \in keep : i >= j
             IN  SubSeq(s, lo, hi)

\* ------------------------------------------------------- message literals

SCRAPE_PREFIX == <<"s","c","r","a","p","e"," ">>
ERROR_PREFIX == <<"E","r","r","o","r">>
NOT_PERMITTED_PREFIX ==
    <<"S","c","r","a","p","i","n","g"," ","n","o","t"," ",
      "p","e","r","m","i","t","t","e","d">>
NOT_PERMITTED ==
    <<"S","c","r","a","p","i","n","g"," ","n","o","t"," ",
      "p","e","r","m","i","t","t","e","d"," ","b","y"," ",
      "w","e","b","s","i","t","e",".">>
ERROR_ACCESSING ==
    <<"E","r","r","o","r"," ","a","c","c","e","s","s","i","n","g"," ",
      "U","R","L",":"," ">>
ERROR_UNEXPECTED ==
    <<"A","n"," ","u","n","e","x","p","e","c","t","e","d"," ",
      "e","r","r","o","r"," ","o","c","c","u","r","r","e","d"," ",
      "d","u","r","i","n","g"," ","s","c","r","a","p","i","n","g",":"," ">>
SUCCESS_HEAD ==
    <<"S","u","c","c","e","s","s","f","u","l","l","y"," ",
      "s","c","r","a","p","e","d"," ","c","o","n","t","e","n","t"," ",
      "f","r","o","m"," ">>
SUCCESS_MID == <<":","<","b","r",">","<","p","r","e",">">>
SUCCESS_TAIL == <<"<","/","p","r","e",">">>
ELLIPSIS == <<".",".",".">>
PROVIDE_URL ==
    <<"P","l","e","a","s","e"," ","p","r","o","v","i","d","e"," ","a"," ",
      "U","R","L"," ","t","o"," ","s","c","r","a","p","e",".">>
NOT_SURE ==
    <<"I","'","m"," ","n","o","t"," ","s","u","r","e"," ","h","o","w"," ",
      "t","o"," ","r","e","s","p","o","n","d"," ","t","o"," ",
      "t","h","a","t",".">>
YOU_SAID == <<" ","Y","o","u"," ","s","a","i","d",":"," ","\"">>
QUOTE == <<"\"">>

\* ---------------------------------------------------------- knowledge base

Q1 ==
    <<"h","e","l","l","o">>
Q2 ==
    <<"h","o","w"," ","a","r","e"," ","y","o","u">>
Q3 ==
    <<"w","h","a","t"," ","i","s"," ","y","o","u","r"," ","n","a","m",
      "e">>
Q4 ==
    <<"t","e","l","l"," ","m","e"," ","a"," ","j","o","k","e">>
Q5 ==
    <<"w","h","a","t"," ","t","i","m","e"," ","i","s"," ","i","t">>
Q6 ==
    <<"w","h","a","t"," ","i","s"," ","t","h","e"," ","d","a","t","e">>
Q7 ==
    <<"w","h","o"," ","i","s"," ","a","l","b","e","r","t"," ","e","i",
      "n","s","t","e","i","n">>
Q8 ==
    <<"d","e","f","i","n","e"," ","a","r","t","i","f","i","c","i","a",
      "l"," ","i","n","t","e","l","l","i","g","e","n","c","e">>
A1 ==
    <<"H","e","l","l","o"," ","t","h","e","r","e","!"," ","H","o","w",
      " ","c","a","n"," ","I"," ","h","e","l","p"," ","y","o","u"," ",
      "t","o","d","a","y","?">>
A2 ==
    <<"I","'","m"," ","j","u","s","t"," ","a"," ","p","r","o","g","r",
      "a","m",","," ","b","u","t"," ","I","'","m"," ","d","o","i","n",
      "g"," ","g","r","e","a","t","!"," ","T","h","a","n","k","s"," ",
      "f","o","r"," ","a","s","k","i","n","g",".">>
A3 ==
    <<"I"," ","a","m"," ","a","n"," ","N","L","T","K"," ","F","l","a",
      "s","k"," ","C","h","a","t","b","o","t",".">>
A4 ==
    <<"W","h","y"," ","d","o","n","'","t"," ","s","c","i","e","n","t",
      "i","s","t","s"," ","t","r","u","s","t"," ","a","t","o","m","s",
      "?"," ","B","e","c","a","u","s","e"," ","t","h","e","y"," ","m",
      "a","k","e"," ","u","p"," ","e","v","e","r","y","t","h","i","n",
      "g","!">>
A7 ==
    <<"A","l","b","e","r","t"," ","E","i","n","s","t","e","i","n"," ",
      "w","a","s"," ","a"," ","t","h","e","o","r","e","t","i","c","a",
      "l"," ","p","h","y","s","i","c","i","s","t"," ","w","h","o"," ",
      "d","e","v","e","l","o","p","e","d"," ","t","h","e"," ","t","h",
      "e","o","r","y"," ","o","f"," ","r","e","l","a","t","i","v","i",
      "t","y",".">>
A8 ==
    <<"A","r","t","i","f","i","c","i","a","l"," ","I","n","t","e","l",
      "l","i","g","e","n","c","e"," ","i","s"," ","t","h","e"," ","s",
      "i","m","u","l","a","t","i","o","n"," ","o","f"," ","h","u","m",
      "a","n"," ","i","n","t","e","l","l","i","g","e","n","c","e"," ",
      "i","n"," ","m","a","c","h","i","n","e","s",".">>
TIME_HEAD ==
    <<"T","h","e"," ","c","u","r","r","e","n","t"," ","t","i","m","e",
      " ","i","s"," ">>
DATE_HEAD ==
    <<"T","o","d","a","y","'","s"," ","d","a","t","e"," ","i","s"," ">>

DIGITS == <<"0","1","2","3","4","5","6","7","8","9">>

TwoDigits(n) == <<DIGITS[((n \div 10) % 10) + 1], DIGITS[(n % 10) + 1]>>

\* time.strftime('%H:%M:%S'); the process is taken to start at midnight
StrfTime(clock) ==
    LET secs == clock \div TicksPerSec
    IN  TwoDigits((secs \div 3600) % 24) \o <<":">>
        \o TwoDigits((secs \div 60) % 60) \o <<":">> \o TwoDigits(secs % 60)

\* time.strftime('%Y-%m-%d'); the process is taken to start on 1970-01-01
\* and the modelled runs end within that day
StrfDate(clock) ==
    <<"1","9","7","0","-","0","1","-">>
    \o TwoDigits(1 + (clock \div (TicksPerSec * 86400)))

\* ADVANCED_KNOWLEDGE: questions, static answers, "dynamic" flags
ADVANCED_KNOWLEDGE ==
    << [question |-> Q1, answer |-> A1, dynamic |-> FALSE],
       [question |-> Q2, answer |-> A2, dynamic |-> FALSE],
       [question |-> Q3, answer |-> A3, dynamic |-> FALSE],
       [question |-> Q4, answer |-> A4, dynamic |-> FALSE],
       [question |-> Q5, answer |-> TIME_HEAD, dynamic |-> TRUE],
       [question |-> Q6, answer |-> DATE_HEAD, dynamic |-> TRUE],
       [question |-> Q7, answer |-> A7, dynamic |-> FALSE],
       [question |-> Q8, answer |-> A8, dynamic |-> FALSE] >>

\* the lambdas of the two dynamic entries, called at match time
DynamicAnswer(idx, clock) ==
    IF idx = 5 THEN TIME_HEAD \o StrfTime(clock) \o <<".">>
               ELSE DATE_HEAD \o StrfDate(clock) \o <<".">>

knowledge_questions ==
    [i \in 1..Len(ADVANCED_KNOWLEDGE) |-> ADVANCED_KNOWLEDGE[i].question]

\* ------------------------------------------------------------- tokenizing

\* first index >= i of s holding (want = TRUE) or not holding (want = FALSE)
\* a whitespace character; Len(s) + 1 when there is none
RECURSIVE Scan(_, _, _)
Scan(s, i, want) ==
    IF i > Len(s) THEN i
    ELSE IF (s[i] \in WHITESPACE) = want THEN i
    ELSE Scan(s, i + 1, want)

\* str.split(): the maximal runs of non-whitespace characters, in order
RECURSIVE SplitFrom(_, _)
SplitFrom(s, i) ==
    LET b == Scan(s, i, FALSE)
        e == Scan(s, b, TRUE)
    IN  IF b > Len(s) THEN <<>>
        ELSE <<SubSeq(s, b, e - 1)>> \o SplitFrom(s, e)

Split(s) == SplitFrom(s, 1)

\* " ".join(words)
RECURSIVE Join(_)
Join(words) ==
    IF Len(words) = 0 THEN <<>>
    ELSE IF Len(words) = 1 THEN words[1]
    ELSE words[1] \o <<" ">> \o Join(Tail(words))

\* nltk word_tokenize on text of letters and whitespace: the words
word_tokenize(text) == Split(text)

\* stopwords.words('english'), the members that the modelled inputs can hold
stop_words ==
    { <<"a">>, <<"a","n">>, <<"t","h","e">>, <<"i","s">>, <<"a","r","e">>,
      <<"a","m">>, <<"i","t">>, <<"m","e">>, <<"m","y">>, <<"y","o","u">>,
      <<"y","o","u","r">>, <<"w","h","a","t">>, <<"w","h","o">>,
      <<"h","o","w">>, <<"i">>, <<"t","o">>, <<"d","o">>, <<"a","n","d">>,
      <<"b","e">>, <<"o","f">> }

\* WordNetLemmatizer.lemmatize(token) (noun): the plural nouns among the
\* modelled words go to their singular, every other modelled word is its
\* own lemma
lemmatize(token) ==
    IF token = <<"j","o","k","e","s">> THEN <<"j","o","k","e">>
    ELSE IF token = <<"n","a","m","e","s">> THEN <<"n","a","m","e">>
    ELSE token

\* preprocess(text), lines 99-102
preprocess(text) ==
    LET tokens == word_tokenize(Lower(text))
        kept == SelectSeq(tokens, LAMBDA tok : IsAlpha(tok) /\ tok \notin stop_words)
    IN  Join([i \in 1..Len(kept) |-> lemmatize(kept[i])])

\* ------------------------------------------------------ TfidfVectorizer

\* the vectorizer's analyzer: lowercase, then the tokens of two or more
\* word characters (token_pattern \b\w\w+\b)
Analyze(doc) ==
    SelectSeq(Split(Lower(doc)), LAMBDA tok : Len(tok) >= 2)

Range(seq) == {seq[i] : i \in 1..Len(seq)}

\* number of occurrences of term in a token sequence
Count(term, tokens) == Cardinality({i \in 1..Len(tokens) : tokens[i] = term})

\* vectorizer.fit(knowledge_questions): the vocabulary, from the raw questions
Vocabulary ==
    UNION {Range(Analyze(knowledge_questions[i])) : i \in 1..Len(knowledge_questions)}

\* document frequency of a term in the fitted corpus
Df(term) ==
    Cardinality({i \in 1..Len(knowledge_questions) :
                    term \in Range(Analyze(knowledge_questions[i]))})

\* smoothed idf, ln((1 + N) / (1 + df)) + 1 for N = 8 documents, in
\* thousandths, indexed by df = 1..8
IDF_MILLI == <<2504, 2099, 1811, 1588, 1405, 1251, 1118, 1000>>

\* vectorizer.idf_, fitted once
IdfTable == [term \in Vocabulary |-> IDF_MILLI[Df(term)]]

Idf(term) == IdfTable[term]

\* floor of the square root, by Newton's iteration from x
RECURSIVE SqrtFrom(_, _)
SqrtFrom(n, x) ==
    LET y == (x + (n \div x)) \div 2
    IN  IF y >= x THEN x ELSE SqrtFrom(n, y)

ISqrt(n) == IF n = 0 THEN 0 ELSE SqrtFrom(n, n)

RECURSIVE SumOver(_, _)
SumOver(S, f) ==
    IF S = {} THEN 0
    ELSE LET x == CHOOSE x \in S : TRUE
         IN  f[x] + SumOver(S \ {x}, f)

\* tf * idf as a sparse vector: a function on the terms of the document that
\* are in the frozen vocabulary (terms outside it are ignored)
RawVector(doc) ==
    LET tokens == Analyze(doc)
    IN  [term \in Range(tokens) \cap Vocabulary |-> Count(term, tokens) * Idf(term)]

\* L2 normalisation, components in thousandths; the zero vector stays zero
Normalize(vec) ==
    LET norm == ISqrt(SumOver(DOMAIN vec, [t \in DOMAIN vec |-> vec[t] * vec[t]]))
    IN  [t \in DOMAIN vec |-> (vec[t] * 1000) \div norm]

\* vectorizer.transform([doc])
Transform(doc) == Normalize(RawVector(doc))

\* knowledge_vectors = vectorizer.fit_transform(knowledge_questions), line 46
knowledge_vectors ==
    [i \in 1..Len(knowledge_questions) |-> Transform(knowledge_questions[i])]

\* cosine_similarity of two normalised vectors, in thousandths
cosine_similarity(u, v) ==
    LET common == DOMAIN u \cap DOMAIN v
    IN  SumOver(common, [t \in common |-> u[t] * v[t]]) \div 1000

\* the acceptance threshold 0.6 of line 110, in thousandths
THRESHOLD_MILLI == 600

\* similarities of a query against every knowledge entry, lines 105-107
Similarities(user_input) ==
    LET input_vec == Transform(preprocess(user_input))
    IN  [i \in 1..Len(knowledge_questions) |->
            cosine_similarity(input_vec, knowledge_vectors[i])]

\* numpy argmax: the first index holding the maximum
ArgMax(sims) ==
    CHOOSE i \in DOMAIN sims :
        /\ \A j \in DOMAIN sims : sims[j] <= sims[i]
        /\ \A j \in DOMAIN sims : j < i => sims[j] < sims[i]

\* custom_semantic_match(user_input), lines 104-115; found = FALSE is None
custom_semantic_match(user_input, clock) ==
    LET similarities == Similarities(user_input)
        max_sim_idx == ArgMax(similarities)
        max_sim_score == similarities[max_sim_idx]
    IN  IF max_sim_score > THRESHOLD_MILLI
        THEN [found |-> TRUE,
              answer |-> IF ADVANCED_KNOWLEDGE[max_sim_idx].dynamic
                         THEN DynamicAnswer(max_sim_idx, clock)
                         ELSE ADVANCED_KNOWLEDGE[max_sim_idx].answer]
        ELSE [found |-> FALSE, answer |-> <<>>]

\* sent_tokenize(user_input) on text of letters and whitespace: the whole
\* trimmed text is one sentence, and blank text has none
sent_tokenize(text) ==
    IF Strip(text) = <<>> THEN <<>> ELSE <<Strip(text)>>

\* ------------------------------------------------------------------ state

VARIABLES
    now,                \* the clock, in ticks since the module was loaded
    last_request_time,  \* last_request_time[0], line 30
    num_calls,          \* the decorator's call counter for the current period
    last_reset,         \* the decorator's start of the current period
    pc,                 \* per handler: where it is in its request
    user_input,         \* per handler: the message being answered
    route,              \* per handler: the branch of line 119 that was taken
    url,                \* per handler: the argument of the fetch
    attempts,           \* per handler: calls of rate_limited_get_url_content
    current_time,       \* per handler: the local of line 76
    wake,               \* per handler: when its time.sleep() may return
    outcome,            \* per handler: which return of lines 85-97 was taken
    scraped_text,       \* per handler: what the fetch returned
    response,           \* per handler: what generate_response returned
    watch_from,         \* observer: start of the watched interval, -1 if none
    watch_count         \* observer: calls that passed in the watched interval

limiter == <<last_request_time, num_calls, last_reset>>
locals == <<user_input, route, url, attempts, current_time, wake, outcome,
            scraped_text, response>>
watch == <<watch_from, watch_count>>
vars == <<now, limiter, pc, locals, watch>>

Gap == MIN_GAP * TicksPerSec
Period == PERIOD * TicksPerSec

Init ==
    /\ now = 0
    /\ last_request_time = 0
    /\ num_calls = 0
    /\ last_reset = 0
    /\ pc = [t \in Threads |-> "idle"]
    /\ user_input = [t \in Threads |-> <<>>]
    /\ route = [t \in Threads |-> "none"]
    /\ url = [t \in Threads |-> <<>>]
    /\ attempts = [t \in Threads |-> 0]
    /\ current_time = [t \in Threads |-> 0]
    /\ wake = [t \in Threads |-> 0]
    /\ outcome = [t \in Threads |-> "none"]
    /\ scraped_text = [t \in Threads |-> <<>>]
    /\ response = [t \in Threads |-> <<>>]
    /\ watch_from = -1
    /\ watch_count = 0

\* ----------------------------------------------------------------- router

\* faulty variant of IsScrapeCommand: the test made on the message as typed,
\* without lower()
IsScrapeCommandCaseSensitive(text) == StartsWith(text, SCRAPE_PREFIX)

\* line 119: user_input_lower.startswith("scrape ")
IsScrapeCommand(text) == StartsWith(Lower(text), SCRAPE_PREFIX)

\* faulty variant of UrlOf: the URL taken without strip()
UrlOfUntrimmed(text) == SliceFrom(text, Len(SCRAPE_PREFIX))

\* line 120: url = user_input[len("scrape "):].strip()
UrlOf(text) == Strip(SliceFrom(text, Len(SCRAPE_PREFIX)))

\* line 123: the fetcher's string is taken for a failure or the sentinel
LooksLikeFailure(text) ==
    StartsWith(text, ERROR_PREFIX) \/ StartsWith(text, NOT_PERMITTED_PREFIX)

\* faulty variant of Preview: the marker added from 500 characters on, not
\* from 501
PreviewMarkerAtLimit(text) ==
    SliceTo(text, PREVIEW_LEN)
    \o (IF Len(text) >= PREVIEW_LEN THEN ELLIPSIS ELSE <<>>)

\* line 126: preview = scraped_text[:500] + ('...' if len(...) > 500 else '')
Preview(text) ==
    SliceTo(text, PREVIEW_LEN)
    \o (IF Len(text) > PREVIEW_LEN THEN ELLIPSIS ELSE <<>>)

\* lines 123-127: the response to a scrape command, from the fetcher's string
ScrapeResponse(target, text) ==
    IF LooksLikeFailure(text) THEN text
    ELSE SUCCESS_HEAD \o target \o SUCCESS_MID \o Preview(text) \o SUCCESS_TAIL

\* lines 130-136: the response to anything that is no scrape command
ChatResponse(text, clock) ==
    LET match == custom_semantic_match(text, clock)
        sents == sent_tokenize(text)
    IN  IF match.found /\ match.answer # <<>> THEN match.answer
        ELSE IF sents # <<>> THEN NOT_SURE \o YOU_SAID \o sents[1] \o QUOTE
        ELSE NOT_SURE

\* the bound on the decorator's counter: no further fetch is asked for once
\* MaxOver calls beyond the quota were counted in the running period
Admitted(text) ==
    \/ ~(IsScrapeCommand(text) /\ UrlOf(text) # <<>>)
    \/ now - last_reset >= PERIOD * TicksPerSec
    \/ num_calls < CALLS + MaxOver

\* generate_response(user_input), lines 117-136, up to the call of the
\* fetcher (line 122) or to its return when no fetch is made
GenerateResponse(t, inputs) ==
    /\ pc[t] = "idle"
    /\ \E text \in inputs :
          /\ Admitted(text)
          /\ user_input' = [user_input EXCEPT ![t] = text]
          /\ route' = [route EXCEPT ![t] =
                          IF IsScrapeCommand(text) THEN "scrape" ELSE "chat"]
          /\ IF IsScrapeCommand(text)
             THEN IF UrlOf(text) # <<>>
                  THEN /\ url' = [url EXCEPT ![t] = UrlOf(text)]
                       /\ attempts' = [attempts EXCEPT ![t] = 1]
                       /\ pc' = [pc EXCEPT ![t] = "limit"]
                       /\ UNCHANGED response
                  ELSE /\ response' = [response EXCEPT ![t] = PROVIDE_URL]
                       /\ pc' = [pc EXCEPT ![t] = "done"]
                       /\ UNCHANGED <<url, attempts>>
             ELSE /\ response' = [response EXCEPT ![t] = ChatResponse(text, now)]
                  /\ pc' = [pc EXCEPT ![t] = "done"]
                  /\ UNCHANGED <<url, attempts>>
    /\ UNCHANGED <<now, limiter, current_time, wake, outcome, scraped_text, watch>>

\* ------------------------------------------------------------ rate limiter

\* the decorator's test for the end of the period (period_remaining <= 0)
PeriodOver(clock, reset) == Period - (clock - reset) <= 0

\* the decorator's test for too many calls in the period
OverQuota(calls) == calls > CALLS

\* @ratelimit.limits(calls=10, period=60), line 73: under the decorator's
\* lock, start a new period when the old one is over, count the call, and
\* raise RateLimitException when the count exceeds the quota.  The exception
\* is raised outside the try of lines 75-97 and nothing in generate_response
\* catches it.
Limits(t) ==
    /\ pc[t] = "limit"
    /\ LET over == PeriodOver(now, last_reset)
           calls == (IF over THEN 0 ELSE num_calls) + 1
       IN  /\ num_calls' = calls
           /\ last_reset' = IF over THEN now ELSE last_reset
           /\ pc' = [pc EXCEPT ![t] = IF OverQuota(calls) THEN "crashed" ELSE "read"]
    /\ UNCHANGED <<now, last_request_time, locals, watch>>

\* ---------------------------------------------------------------- fetcher

\* line 76: current_time = time.time()
ReadClock(t) ==
    /\ pc[t] = "read"
    /\ current_time' = [current_time EXCEPT ![t] = now]
    /\ pc' = [pc EXCEPT ![t] = "check"]
    /\ UNCHANGED <<now, limiter, user_input, route, url, attempts, wake, outcome,
                   scraped_text, response, watch>>

\* line 77: current_time - last_request_time[0] < 1
TooSoon(current, last) == current - last < Gap

\* faulty variant of Deficit: the time already waited is slept, not the time
\* still missing
DeficitElapsed(current, last) == current - last

\* line 78: the argument of time.sleep()
Deficit(current, last) == Gap - (current - last)

\* line 77: the test, on the shared cell as it is now
CheckSpacing(t) ==
    /\ pc[t] = "check"
    /\ pc' = [pc EXCEPT ![t] =
                IF TooSoon(current_time[t], last_request_time) THEN "nap" ELSE "write"]
    /\ UNCHANGED <<now, limiter, locals, watch>>

\* line 78: time.sleep(1 - (current_time - last_request_time[0])) begins; the
\* shared cell is read again for the argument
StartSleep(t) ==
    /\ pc[t] = "nap"
    /\ wake' = [wake EXCEPT ![t] = now + Deficit(current_time[t], last_request_time)]
    /\ pc' = [pc EXCEPT ![t] = "sleep"]
    /\ UNCHANGED <<now, limiter, user_input, route, url, attempts, current_time, outcome,
                   scraped_text, response, watch>>

\* line 78: time.sleep() returns, no earlier than asked
WakeUp(t) ==
    /\ pc[t] = "sleep"
    /\ now >= wake[t]
    /\ pc' = [pc EXCEPT ![t] = "write"]
    /\ UNCHANGED <<now, limiter, locals, watch>>

\* line 79: last_request_time[0] = time.time(); the observer counts the call
Record(t) ==
    /\ pc[t] = "write"
    /\ last_request_time' = now
    /\ pc' = [pc EXCEPT ![t] = "get"]
    /\ watch_count' = IF watch_from >= 0 /\ now < watch_from + Period
                      THEN watch_count + 1 ELSE watch_count
    /\ UNCHANGED <<now, num_calls, last_reset, locals, watch_from>>

\* what lines 81-97 can return: the sentinel (line 85), the page text
\* (line 93), or one of the two error strings (lines 95, 97)
FetchResults(texts, errors) ==
    {[kind |-> "disallowed", body |-> NOT_PERMITTED]}
    \cup {[kind |-> "text", body |-> txt] : txt \in texts}
    \cup {[kind |-> "request_error", body |-> ERROR_ACCESSING \o e] : e \in errors}
    \cup {[kind |-> "unexpected_error", body |-> ERROR_UNEXPECTED \o e] : e \in errors}

\* lines 81-97: the HTTP GET and the reduction of the page to text
HttpGet(t, texts, errors) ==
    /\ pc[t] = "get"
    /\ \E r \in FetchResults(texts, errors) :
          /\ outcome' = [outcome EXCEPT ![t] = r.kind]
          /\ scraped_text' = [scraped_text EXCEPT ![t] = r.body]
    /\ pc' = [pc EXCEPT ![t] = "format"]
    /\ UNCHANGED <<now, limiter, user_input, route, url, attempts, current_time, wake,
                   response, watch>>

\* lines 123-127: generate_response returns
Format(t) ==
    /\ pc[t] = "format"
    /\ response' = [response EXCEPT ![t] = ScrapeResponse(url[t], scraped_text[t])]
    /\ pc' = [pc EXCEPT ![t] = "done"]
    /\ UNCHANGED <<now, limiter, user_input, route, url, attempts, current_time, wake,
                   outcome, scraped_text, watch>>

\* the request is over (answered, or failed with the escaped exception) and
\* the handler is free for the next one
Finish(t) ==
    /\ pc[t] \in {"done", "crashed"}
    /\ pc' = [pc EXCEPT ![t] = "idle"]
    /\ user_input' = [user_input EXCEPT ![t] = <<>>]
    /\ route' = [route EXCEPT ![t] = "none"]
    /\ url' = [url EXCEPT ![t] = <<>>]
    /\ attempts' = [attempts EXCEPT ![t] = 0]
    /\ current_time' = [current_time EXCEPT ![t] = 0]
    /\ wake' = [wake EXCEPT ![t] = 0]
    /\ outcome' = [outcome EXCEPT ![t] = "none"]
    /\ scraped_text' = [scraped_text EXCEPT ![t] = <<>>]
    /\ response' = [response EXCEPT ![t] = <<>>]
    /\ UNCHANGED <<now, limiter, watch>>

\* one tick of the clock, up to the given end
Tick(end) ==
    /\ now < end
    /\ now' = now + 1
    /\ UNCHANGED <<limiter, pc, locals, watch>>

\* the observer starts watching the interval [now, now + Period)
Watch ==
    /\ watch_from = -1
    /\ watch_from' = now
    /\ UNCHANGED <<now, limiter, pc, locals, watch_count>>


\* --------------------------------------------------------- specifications

\* every step a handler can take
Handler(t, inputs, texts, errors) ==
    \/ GenerateResponse(t, inputs)
    \/ Limits(t)
    \/ ReadClock(t)
    \/ CheckSpacing(t)
    \/ StartSleep(t)
    \/ WakeUp(t)
    \/ Record(t)
    \/ HttpGet(t, texts, errors)
    \/ Format(t)
    \/ Finish(t)

\* messages, page texts and error texts of the timing runs
SCRAPE_U == <<"s","c","r","a","p","e"," ","u">>
SeqInputs ==
    { SCRAPE_U,
      <<"S","c","r","a","p","e"," "," ","u"," ">>,
      <<"s","c","r","a","p","e"," ">>,
      <<" ","s","c","r","a","p","e"," ","u">>,
      <<"h","i">> }
SeqTexts == { <<"o","k">> }
SeqErrors == { <<"e">> }

\* one handler, one request after another, the clock free to advance at
\* any point
Next ==
    \/ Handler(1, SeqInputs, SeqTexts, SeqErrors)
    \/ Tick(MaxSeconds * TicksPerSec)

Spec == Init /\ [][Next]_vars

\* one handler answering a client that sends its messages back to back: the
\* clock advances only while the handler sleeps and after a request has
\* failed; an observer may start watching an interval at any instant
BurstTick ==
    /\ \/ pc[1] = "sleep" /\ now < wake[1]
       \/ pc[1] = "crashed"
    /\ Tick(BurstSeconds * TicksPerSec)

NextBurst ==
    \/ Handler(1, SeqInputs, SeqTexts, SeqErrors)
    \/ BurstTick
    \/ Watch

SpecBurst == Init /\ [][NextBurst]_vars

\* two handlers answering scrape commands at the same time
NextConc ==
    \/ \E t \in Threads : Handler(t, {SCRAPE_U}, SeqTexts, SeqErrors)
    \/ Tick(ConcSeconds * TicksPerSec)

SpecConc == Init /\ [][NextConc]_vars

\* one handler, the messages and the fetch results that the router tells
\* apart
RouterInputs ==
    { SCRAPE_U,
      <<"S","C","R","A","P","E"," ","U">>,
      <<"S","c","r","a","p","e"," "," ","u"," ">>,
      <<"s","c","r","a","p","e"," ">>,
      <<"s","c","r","a","p","e"," ","\t"," ">>,
      <<"s","c","r","a","p","e">>,
      <<"s","c","r","a","p","e","u">>,
      <<" ","s","c","r","a","p","e"," ","u">>,
      <<"\t","S","c","r","a","p","e"," ","u">>,
      <<"s","c","r","a","p","e","\t","u">>,
      <<"s","c","r","a","p","e","\n","u">>,
      Q1, Q2, Q3, Q4, Q5, Q6, Q7, Q8,
      <<"H","e","l","l","o"," ">>,
      <<"t","e","l","l"," ","j","o","k","e","s">>,
      <<"h","i">>,
      <<" ">>,
      <<>> }

\* a page text of n letters
Letters(n) == [i \in 1..n |-> LOWER[(i % 26) + 1]]

RouterTexts ==
    { Letters(0), Letters(1), Letters(PREVIEW_LEN - 1), Letters(PREVIEW_LEN),
      Letters(PREVIEW_LEN + 1), Letters(PREVIEW_LEN + ExtraLen),
      ERROR_PREFIX \o <<" ">> \o Letters(3),
      NOT_PERMITTED_PREFIX \o <<" ">> \o Letters(3) }
RouterErrors == { <<"t","i","m","e","d"," ","o","u","t">> }

NextRouter ==
    \/ Handler(1, RouterInputs, RouterTexts, RouterErrors)
    \/ Tick(RouterSeconds * TicksPerSec)

SpecRouter == Init /\ [][NextRouter]_vars

\* ------------------------------------------------------------------ claims

Finished(t) == pc[t] \in {"done", "crashed"}

\* C1: every request, whatever came before it, ends with generate_response
\* returning a string: no exception escapes the fetcher or the router.
C1_AlwaysAnswered ==
    \A t \in Threads : Finished(t) => pc[t] = "done" /\ response[t] # <<>>

\* C2: in any interval of 60 seconds, wherever it starts, at most 10 calls
\* pass the rate limiter and go on to the HTTP GET.
C2_RollingQuota == watch_count <= CALLS

\* C3: a fetch call beyond the quota is never rejected or dropped: every call
\* that reaches the rate limiter goes on, possibly later, to the fetch body.
C3_NeverRejected ==
    [][\A t \in Threads :
          (pc[t] = "limit" /\ pc'[t] # "limit") => pc'[t] = "read"]_vars

\* the step of handler t that records its call time (line 79)
Records(t) == pc[t] = "write" /\ pc'[t] = "get"

\* C4: with one caller, each recorded call time is at least 1 second after
\* the one recorded before it (the first after the time recorded at start),
\* and a call arriving d < 1 second after the recorded time sleeps the
\* deficit 1 - d before it records its own time.
C4_MinimumSpacing ==
    [][\A t \in Threads :
          /\ Records(t) => last_request_time' - last_request_time >= Gap
          /\ (pc[t] = "nap" /\ pc'[t] = "sleep") =>
                /\ current_time[t] - last_request_time < Gap
                /\ wake'[t] - now = Gap - (current_time[t] - last_request_time)
          /\ (pc[t] = "check" /\ pc'[t] = "write") =>
                current_time[t] - last_request_time >= Gap
          /\ (pc[t] = "sleep" /\ pc'[t] = "write") => now >= wake[t]]_vars

\* C4 witness: a call that arrived half-way into the gap has slept the rest
\* of it and recorded its time.
C4_Witness ==
    \E t \in Threads :
        /\ pc[t] = "get"
        /\ num_calls >= 2
        /\ wake[t] - current_time[t] > 0
        /\ wake[t] - current_time[t] < Gap
        /\ last_request_time >= wake[t]

\* C5: with handlers running at the same time, the read-check-sleep-write
\* step on the shared time is mutually exclusive, so that in every
\* interleaving no two calls record times less than 1 second apart.  The
\* formula states the consequence, which is what mutual exclusion is for.
C5_ConcurrentSpacing ==
    [][\A t \in Threads :
          Records(t) => last_request_time' - last_request_time >= Gap]_vars

\* the command word
SCRAPE == <<"s","c","r","a","p","e">>

\* the text, with leading whitespace dropped and case ignored, starts with
\* the word "scrape" followed by a whitespace character
TrimmedCommand(text) ==
    LET lead == {i \in 1..Len(text) : text[i] \notin WHITESPACE}
        s == IF lead = {} THEN <<>>
             ELSE SubSeq(text, CHOOSE i \in lead : \A j \in lead : i <= j, Len(text))
    IN  /\ Len(s) > Len(SCRAPE)
        /\ \A i \in 1..Len(SCRAPE) : LowerChar(s[i]) = SCRAPE[i]
        /\ s[Len(SCRAPE) + 1] \in WHITESPACE

\* the text itself, case ignored, starts with "scrape" and one space
ExactCommand(text) ==
    /\ Len(text) > Len(SCRAPE)
    /\ \A i \in 1..Len(SCRAPE) : LowerChar(text[i]) = SCRAPE[i]
    /\ text[Len(SCRAPE) + 1] = " "

\* what follows the first seven characters, trimmed
Remainder(text) == Strip(SubSeq(text, Len(SCRAPE) + 2, Len(text)))

\* C6 as stated: the scrape path is taken exactly when the trimmed input,
\* case ignored, starts with "scrape" and a whitespace character.
C6_TrimmedRecognition ==
    \A t \in Threads :
        pc[t] # "idle" => (route[t] = "scrape" <=> TrimmedCommand(user_input[t]))

\* C6 amended: the scrape path is taken exactly when the input as given,
\* case ignored, starts with "scrape" and a space character; the URL is the
\* trimmed rest after those seven characters; every other input, also one
\* with whitespace before "scrape" or a tab after it, goes to the matcher.
C6_ExactRecognition ==
    \A t \in Threads :
        pc[t] # "idle" =>
            /\ route[t] = "scrape" <=> ExactCommand(user_input[t])
            /\ route[t] = "chat" <=> ~ExactCommand(user_input[t])
            /\ attempts[t] = 1 => url[t] = Remainder(user_input[t])

\* C6 witness: a message with whitespace before "scrape" was answered by the
\* matcher branch.
C6_Witness ==
    \E t \in Threads :
        /\ pc[t] = "done"
        /\ route[t] = "chat"
        /\ TrimmedCommand(user_input[t])

\* C7: after a fetch, the response is the fetcher's string verbatim exactly
\* when the fetch ended in a failure or the disallowed sentinel, and is the
\* success message exactly when the fetch returned page text.
C7_FailuresPassThrough ==
    \A t \in Threads :
        (pc[t] = "done" /\ attempts[t] = 1) =>
            /\ response[t] = scraped_text[t] <=>
                  outcome[t] \in {"disallowed", "request_error", "unexpected_error"}
            /\ StartsWith(response[t], SUCCESS_HEAD) <=> outcome[t] = "text"

\* C8: the exact question text of every knowledge-base entry scores
\* similarity 1.0 (up to the rounding of the thousandths) against its entry,
\* selects it, and is answered with its answer.
C8_ExactQuestionMatches ==
    \A t \in Threads : \A i \in 1..Len(ADVANCED_KNOWLEDGE) :
        (pc[t] = "done" /\ user_input[t] = ADVANCED_KNOWLEDGE[i].question) =>
            /\ Similarities(user_input[t])[i] >= 995
            /\ ArgMax(Similarities(user_input[t])) = i
            /\ IF ADVANCED_KNOWLEDGE[i].dynamic
               THEN \E c \in 0..now : response[t] = DynamicAnswer(i, c)
               ELSE response[t] = ADVANCED_KNOWLEDGE[i].answer

\* C9: for fetched page text that is shown, the preview inside the success
\* message is the first 500 characters and "..." when the text is longer
\* than 500, and the whole text without a marker otherwise.
C9_PreviewTruncation ==
    \A t \in Threads :
        (pc[t] = "done" /\ outcome[t] = "text"
           /\ StartsWith(response[t], SUCCESS_HEAD)) =>
            LET txt == scraped_text[t]
                n == Len(txt)
                off == Len(SUCCESS_HEAD) + Len(url[t]) + Len(SUCCESS_MID)
                shown == IF n > PREVIEW_LEN THEN PREVIEW_LEN ELSE n
                marker == IF n > PREVIEW_LEN THEN 3 ELSE 0
            IN  /\ Len(response[t]) = off + shown + marker + Len(SUCCESS_TAIL)
                /\ \A i \in 1..shown : response[t][off + i] = txt[i]
                /\ \A i \in 1..marker : response[t][off + shown + i] = "."
                /\ SubSeq(response[t], off + shown + marker + 1, Len(response[t]))
                      = SUCCESS_TAIL

\* C9 witness: a page text of exactly 500 characters was shown.
C9_Witness ==
    \E t \in Threads :
        /\ pc[t] = "done"
        /\ outcome[t] = "text"
        /\ Len(scraped_text[t]) = PREVIEW_LEN
        /\ StartsWith(response[t], SUCCESS_HEAD)

\* the message is a scrape command with a non-empty URL
NeedsFetch(text) == ExactCommand(text) /\ Remainder(text) # <<>>

\* the message handler t is answering in this step
Answering(t) == IF pc[t] = "idle" THEN user_input'[t] ELSE user_input[t]

\* C10: a request makes exactly one fetch call, for the given URL, when its
\* message is a scrape command with a non-empty URL, and otherwise makes none
\* and leaves the rate limiter's state unchanged ("Please provide a URL to
\* scrape." for the empty URL); in a fetch the limiter's check and the
\* recording of the call time come before the HTTP GET.
C10_FetchCountAndFrame ==
    [][\A t \in Threads :
          /\ (~Finished(t) /\ Finished(t)') =>
                /\ attempts'[t] = IF NeedsFetch(user_input'[t]) THEN 1 ELSE 0
                /\ NeedsFetch(user_input'[t]) => url'[t] = Remainder(user_input'[t])
                /\ (ExactCommand(user_input'[t]) /\ ~NeedsFetch(user_input'[t]))
                      => response'[t] = PROVIDE_URL
          /\ (pc'[t] # pc[t] /\ limiter' # limiter) => NeedsFetch(Answering(t))
          /\ (pc[t] = "get" /\ pc'[t] # "get") =>
                /\ attempts[t] = 1
                /\ num_calls \in 1..CALLS
                /\ last_request_time >= current_time[t]
                /\ last_request_time >= Gap]_vars

\* C10 witness: a scrape command with padding around its URL was answered
\* after one fetch, and it was not the first fetch.
C10_Witness ==
    \E t \in Threads :
        /\ pc[t] = "done"
        /\ attempts[t] = 1
        /\ user_input[t] # SCRAPE_U
        /\ num_calls >= 2

====
